---- MODULE Spec2Model ----
(***************************************************************************)
(* Model of the chome2 expense backend: the SheetsService row-store        *)
(* adapter (src/unnamed/part_002, the lazily initialised version of        *)
(* src/services/sheets.js) and the HTTP handlers that call it              *)
(* (src/routes/expenses.js, the users router in src/unnamed/part_001).     *)
(*                                                                         *)
(* The three sheets are sequences of rows in append order.  Every request  *)
(* is a process that advances one await at a time, so the row-store        *)
(* fetches and appends of concurrent requests interleave freely.           *)
(*                                                                         *)
(* Amounts are written in cents (2.01 is 201) and parsed into doubles as   *)
(* parseFloat does; the sums, the shares amount / n and the rounding of    *)
(* calculateBalance are computed in IEEE 754 double arithmetic, operation  *)
(* by operation, and the rounded results are written in cents again.  The  *)
(* columns product_name and expense_date are kept because the validation   *)
(* reads them; quantity, note and created_at are carried through by the    *)
(* code without being read by any decision and are left out.               *)
(***************************************************************************)
EXTENDS Integers, Sequences, FiniteSets, TLC

\* ---------------------------------------------------------------- bounds
NumProcs == 2
MaxUsers == 2
MaxExpenses == 2
MaxConsumers == 2

Procs == 1..NumProcs

\* ------------------------------------------------------------- constants
\* Math.round(x * 100) / 100
RoundFactor == 100

\* The significand of a double
MantissaBits == 53

\* The width of a limb, and the bits a quotient is carried to before it is rounded
LimbBits == 15
GuardBits == 75

\* --------------------------------------------------------------- helpers
RECURSIVE SeqsUpTo(_, _)
SeqsUpTo(S, n) ==
    IF n = 0 THEN {<<>>}
    ELSE LET shorter == SeqsUpTo(S, n - 1)
         IN  shorter \cup {Append(s, x) : s \in {t \in shorter : Len(t) = n - 1}, x \in S}

RECURSIVE SumSeq(_)
SumSeq(s) == IF s = <<>> THEN 0 ELSE Head(s) + SumSeq(Tail(s))

RECURSIVE MaxSeq(_)
MaxSeq(s) ==
    IF Len(s) = 1 THEN Head(s)
    ELSE LET m == MaxSeq(Tail(s)) IN IF Head(s) > m THEN Head(s) ELSE m

Map(s, F(_)) == [i \in 1..Len(s) |-> F(s[i])]

\* The set of the elements of a sequence
Range(s) == {s[i] : i \in 1..Len(s)}

\* A set of integers in ascending order
RECURSIVE Ascending(_)
Ascending(S) ==
    IF S = {} THEN <<>>
    ELSE LET m == CHOOSE x \in S : \A y \in S : x <= y
         IN  <<m>> \o Ascending(S \ {m})

LimbBase == 2 ^ LimbBits

\* ------------------------------------------------- IEEE 754 doubles
\* A double is its sign and m * 2^e, m an odd natural number of at most 53 bits
\* kept as a sequence of 15-bit limbs, the least significant first; 0 is m = <<>>
\* (no operation of the program tells -0 from 0: JSON writes both as 0).  The
\* amounts of the program are far from the subnormal and the overflow range.
RECURSIVE BigNorm(_)
BigNorm(a) ==
    IF a = <<>> THEN a
    ELSE IF a[Len(a)] = 0 THEN BigNorm(SubSeq(a, 1, Len(a) - 1)) ELSE a

RECURSIVE BigOfInt(_)
BigOfInt(n) == IF n = 0 THEN <<>> ELSE <<n % LimbBase>> \o BigOfInt(n \div LimbBase)

RECURSIVE BigToInt(_)
BigToInt(a) == IF a = <<>> THEN 0 ELSE Head(a) + LimbBase * BigToInt(Tail(a))

RECURSIVE BigMulSmall(_, _, _)
BigMulSmall(a, k, carry) ==
    IF a = <<>> THEN BigOfInt(carry)
    ELSE LET t == Head(a) * k + carry
         IN  <<t % LimbBase>> \o BigMulSmall(Tail(a), k, t \div LimbBase)

RECURSIVE BigDivSmall(_, _)
BigDivSmall(a, k) ==
    IF a = <<>> THEN [q |-> <<>>, r |-> 0]
    ELSE LET hi == BigDivSmall(Tail(a), k)
             t == hi.r * LimbBase + Head(a)
         IN  [q |-> <<t \div k>> \o hi.q, r |-> t % k]

RECURSIVE BigAdd(_, _, _)
BigAdd(a, b, carry) ==
    IF a = <<>> /\ b = <<>> THEN BigOfInt(carry)
    ELSE LET x == IF a = <<>> THEN 0 ELSE Head(a)
             y == IF b = <<>> THEN 0 ELSE Head(b)
             t == x + y + carry
         IN  <<t % LimbBase>> \o BigAdd(IF a = <<>> THEN a ELSE Tail(a),
                                        IF b = <<>> THEN b ELSE Tail(b), t \div LimbBase)

\* a - b - borrow for a >= b
RECURSIVE BigSub(_, _, _)
BigSub(a, b, borrow) ==
    IF a = <<>> THEN <<>>
    ELSE LET y == IF b = <<>> THEN 0 ELSE Head(b)
             t == Head(a) - y - borrow
         IN  <<t % LimbBase>> \o BigSub(Tail(a), IF b = <<>> THEN b ELSE Tail(b),
                                        IF t < 0 THEN 1 ELSE 0)

\* -1, 0, 1 for normalised a, b
RECURSIVE BigCmp(_, _)
BigCmp(a, b) ==
    IF Len(a) # Len(b) THEN (IF Len(a) < Len(b) THEN -1 ELSE 1)
    ELSE IF a = <<>> THEN 0
    ELSE IF a[Len(a)] # b[Len(b)] THEN (IF a[Len(a)] < b[Len(b)] THEN -1 ELSE 1)
    ELSE BigCmp(SubSeq(a, 1, Len(a) - 1), SubSeq(b, 1, Len(b) - 1))

RECURSIVE IntBitLen(_)
IntBitLen(n) == IF n = 0 THEN 0 ELSE 1 + IntBitLen(n \div 2)

BigBitLen(a) == IF a = <<>> THEN 0 ELSE (Len(a) - 1) * LimbBits + IntBitLen(a[Len(a)])

\* a * 2^s
BigShl(a, s) ==
    IF a = <<>> THEN a
    ELSE [i \in 1..(s \div LimbBits) |-> 0] \o BigMulSmall(a, 2 ^ (s % LimbBits), 0)

\* floor(a / 2^s), and whether bits were lost
BigShr(a, s) ==
    LET w == s \div LimbBits
        low == SubSeq(a, 1, IF w < Len(a) THEN w ELSE Len(a))
        high == SubSeq(a, w + 1, Len(a))
        d == BigDivSmall(high, 2 ^ (s % LimbBits))
    IN  [q |-> BigNorm(d.q), lost |-> d.r # 0 \/ \E i \in 1..Len(low) : low[i] # 0]

\* The double 0
Zero == [neg |-> FALSE, m |-> <<>>, e |-> 0]

\* The value of x / 0 for x > 0
Infinity == [neg |-> FALSE, inf |-> TRUE]

\* The number of times 2 divides n > 0
RECURSIVE TrailingZeros(_)
TrailingZeros(n) == IF n % 2 = 1 THEN 0 ELSE 1 + TrailingZeros(n \div 2)

\* m * 2^e with m odd
RECURSIVE Canonical(_, _, _)
Canonical(neg, m, e) ==
    IF m = <<>> THEN Zero
    ELSE IF Head(m) = 0 THEN Canonical(neg, Tail(m), e + LimbBits)
    ELSE LET z == TrailingZeros(Head(m))
         IN  [neg |-> neg, m |-> BigNorm(BigDivSmall(m, 2 ^ z).q), e |-> e + z]

\* The double nearest (n + f) * 2^e, 0 <= f < 1, f > 0 iff sticky; ties to even
RoundToDouble(neg, n, e, sticky) ==
    LET len == BigBitLen(n)
    IN  IF len <= MantissaBits THEN Canonical(neg, n, e)
        ELSE LET t == len - MantissaBits
                 s == BigShr(n, t - 1)
                 h == BigDivSmall(s.q, 2)
                 m == BigNorm(h.q)
                 up == h.r = 1 /\ (s.lost \/ sticky \/ (m # <<>> /\ m[1] % 2 = 1))
             IN  Canonical(neg, IF up THEN BigAdd(m, <<>>, 1) ELSE m, e + t)

\* The double nearest num / den for integers num >= 0 and den > 0
NearestDouble(num, den) ==
    IF num = 0 THEN Zero
    ELSE LET d == BigDivSmall(BigShl(BigOfInt(num), GuardBits), den)
         IN  RoundToDouble(FALSE, BigNorm(d.q), -GuardBits, d.r # 0)

\* parseFloat of the decimal with c cents: the double nearest c / 100
DoubleOfCents(c) == NearestDouble(c, RoundFactor)

\* x / n for an integer n > 0
DoubleDiv(x, n) ==
    IF x.m = <<>> THEN x
    ELSE LET d == BigDivSmall(BigShl(x.m, GuardBits), n)
         IN  RoundToDouble(x.neg, BigNorm(d.q), x.e - GuardBits, d.r # 0)

\* x * k for an integer k > 0
DoubleTimes(x, k) ==
    IF x.m = <<>> THEN x ELSE RoundToDouble(x.neg, BigMulSmall(x.m, k, 0), x.e, FALSE)

MinOf(a, b) == IF a < b THEN a ELSE b

\* x + y for x, y >= 0
DoubleAdd(x, y) ==
    IF x.m = <<>> THEN y
    ELSE IF y.m = <<>> THEN x
    ELSE LET e == MinOf(x.e, y.e)
         IN  RoundToDouble(FALSE, BigAdd(BigShl(x.m, x.e - e), BigShl(y.m, y.e - e), 0), e, FALSE)

\* x - y for x, y >= 0
DoubleSub(x, y) ==
    LET e == MinOf(x.e, y.e)
        a == IF x.m = <<>> THEN x.m ELSE BigShl(x.m, x.e - e)
        b == IF y.m = <<>> THEN y.m ELSE BigShl(y.m, y.e - e)
        c == BigCmp(a, b)
    IN  IF c = 0 THEN Zero
        ELSE IF c > 0 THEN RoundToDouble(FALSE, BigNorm(BigSub(a, b, 0)), e, FALSE)
        ELSE RoundToDouble(TRUE, BigNorm(BigSub(b, a, 0)), e, FALSE)

\* Math.round(x): the nearest integer, a tie going towards +Infinity
MathRound(x) ==
    IF x.m = <<>> THEN 0
    ELSE IF x.e >= 0 THEN (IF x.neg THEN -1 ELSE 1) * BigToInt(BigShl(x.m, x.e))
    ELSE LET twice == BigShr(x.m, -x.e - 1)
             floor2 == BigToInt(twice.q)
         IN  IF x.neg
             THEN -((floor2 + (IF twice.lost THEN 1 ELSE 0)) \div 2)
             ELSE (floor2 + 1) \div 2

\* ------------------------------------------------------------ input sets
\* user ids a request may name; the largest is never assigned by a createUser
\* that runs alone
UserIds == 1..(MaxUsers + 1)

\* The amounts of the requests, 10 and 1.15, in cents
Amounts == {10 * RoundFactor, RoundFactor + 15}

UserA == [name |-> "A", email |-> "a@x", password |-> "pwA"]
UserB == [name |-> "B", email |-> "b@x", password |-> "pwB"]
UserInputs == {UserA, UserB}
Emails == {"a@x", "b@x", "c@x"}
Passwords == {"pwA", "pwB"}

\* ------------------------------------------------- the rows of the sheets
UserRow(id, d) == [id |-> id, name |-> d.name, email |-> d.email, password |-> d.password]

ExpenseRow(id, d) ==
    [id |-> id, product_name |-> d.product_name, paid_by |-> d.paid_by,
     amount |-> d.amount, expense_date |-> d.expense_date]

\* A consumer row with its two references in each other's column
ConsumerRowSwapped(id, expenseId, userId) ==
    [id |-> id, expense_id |-> userId, user_id |-> expenseId]

ConsumerRow(id, expenseId, userId) == [id |-> id, expense_id |-> expenseId, user_id |-> userId]

\* The largest id taken again instead of the one after it
NextIdOfMax(rows) == IF Len(rows) > 0 THEN MaxSeq(Map(rows, LAMBDA r : r.id)) ELSE 1

\* rows.length > 0 ? Math.max(...rows.map(r => parseInt(r.get("id")))) + 1 : 1
NextId(rows) == IF Len(rows) > 0 THEN MaxSeq(Map(rows, LAMBDA r : r.id)) + 1 ELSE 1

\* rows.find(pred): the index of the first match, 0 for undefined
FindUser(rows, id) ==
    IF \E i \in 1..Len(rows) : rows[i].id = id
    THEN CHOOSE i \in 1..Len(rows) : rows[i].id = id /\ \A j \in 1..(i - 1) : rows[j].id # id
    ELSE 0

FindEmail(rows, email) ==
    IF \E i \in 1..Len(rows) : rows[i].email = email
    THEN CHOOSE i \in 1..Len(rows) :
            rows[i].email = email /\ \A j \in 1..(i - 1) : rows[j].email # email
    ELSE 0

\* amount / expenseConsumers.length for the amount parsed from a row: x / 0 is
\* Infinity for x > 0
amountPerPerson(amount, n) ==
    IF n = 0 THEN Infinity ELSE DoubleDiv(DoubleOfCents(amount), n)

\* Math.round(x * 100) for a double x, in cents
RoundCents(x) == MathRound(DoubleTimes(x, RoundFactor))

\* ------------------------------------------- the results of the operations
Null == [null |-> TRUE]
ServerError == [message |-> "Server error"]
MissingFields == [message |-> "Missing required fields"]

\* getUsers handing out the whole row
getUsersWithPassword(rows) ==
    Map(rows, LAMBDA r : [id |-> r.id, name |-> r.name, email |-> r.email,
                          password |-> r.password])

\* rows.map(row => ({id, name, email}))
getUsersResult(rows) == Map(rows, LAMBDA r : [id |-> r.id, name |-> r.name, email |-> r.email])

getUserByEmailResult(rows, email) ==
    LET i == FindEmail(rows, email)
    IN  IF i = 0 THEN Null
        ELSE [id |-> rows[i].id, name |-> rows[i].name, email |-> rows[i].email,
              password |-> rows[i].password]

createUserResult(newId, d) == [id |-> newId, name |-> d.name, email |-> d.email]

expenseConsumersOf(cons, expenseId) == SelectSeq(cons, LAMBDA c : c.expense_id = expenseId)

\* A getExpenses that also gives up on an expense without consumer rows
getExpensesThrowsOnEmpty(us, exps, cons) ==
    \E i \in 1..Len(exps) :
        \/ FindUser(us, exps[i].paid_by) = 0
        \/ expenseConsumersOf(cons, exps[i].id) = <<>>
        \/ \E c \in Range(expenseConsumersOf(cons, exps[i].id)) : FindUser(us, c.user_id) = 0

\* paidBy.get(...) or user.get(...) on undefined: a TypeError inside expenses.map
getExpensesThrows(us, exps, cons) ==
    \E i \in 1..Len(exps) :
        \/ FindUser(us, exps[i].paid_by) = 0
        \/ \E c \in Range(expenseConsumersOf(cons, exps[i].id)) : FindUser(us, c.user_id) = 0

getExpensesEntry(us, cons, e) ==
    LET ec == expenseConsumersOf(cons, e.id)
        payer == us[FindUser(us, e.paid_by)]
    IN  [id |-> e.id, product_name |-> e.product_name, amount |-> e.amount,
         expense_date |-> e.expense_date,
         paid_by |-> [id |-> payer.id, name |-> payer.name],
         consumers |-> Map(ec, LAMBDA c : LET u == us[FindUser(us, c.user_id)]
                                          IN  [id |-> u.id, name |-> u.name]),
         amount_per_person |-> amountPerPerson(e.amount, Len(ec))]

getExpensesResult(us, exps, cons) == Map(exps, LAMBDA e : getExpensesEntry(us, cons, e))

createExpenseResult(newId, d) ==
    [id |-> newId, product_name |-> d.product_name, paid_by |-> d.paid_by,
     amount |-> d.amount, expense_date |-> d.expense_date, consumers |-> d.consumers]

\* users.forEach: balances[userId] = {id, name, paid: 0, owe: 0, balance: 0};
\* a later row with the same id overwrites the earlier one
RECURSIVE initBalances(_, _)
initBalances(bal, us) ==
    IF us = <<>> THEN bal
    ELSE LET u == Head(us)
             fresh == [id |-> u.id, name |-> u.name, paid |-> Zero, owe |-> Zero]
         IN  initBalances([i \in DOMAIN bal \cup {u.id} |-> IF i = u.id THEN fresh ELSE bal[i]],
                          Tail(us))

\* The paid pass opening a record for a payer that has none
RECURSIVE addPaidOpening(_, _)
addPaidOpening(bal, exps) ==
    IF exps = <<>> THEN bal
    ELSE LET e == Head(exps)
             opened == [id |-> e.paid_by, name |-> "", paid |-> DoubleOfCents(e.amount),
                        owe |-> Zero]
         IN  addPaidOpening(IF e.paid_by \in DOMAIN bal
                            THEN [bal EXCEPT ![e.paid_by].paid =
                                                DoubleAdd(@, DoubleOfCents(e.amount))]
                            ELSE [i \in DOMAIN bal \cup {e.paid_by} |->
                                     IF i = e.paid_by THEN opened ELSE bal[i]],
                            Tail(exps))

\* The paid pass stopping after the first expense
addPaidFirst(bal, exps) ==
    IF exps = <<>> THEN bal
    ELSE LET e == Head(exps)
         IN  IF e.paid_by \in DOMAIN bal
             THEN [bal EXCEPT ![e.paid_by].paid = DoubleAdd(@, DoubleOfCents(e.amount))]
             ELSE bal

\* expenses.forEach: amount = parseFloat(expense.get("amount"));
\* if (balances[paidBy]) balances[paidBy].paid += amount
RECURSIVE addPaid(_, _)
addPaid(bal, exps) ==
    IF exps = <<>> THEN bal
    ELSE LET e == Head(exps)
         IN  addPaid(IF e.paid_by \in DOMAIN bal
                     THEN [bal EXCEPT ![e.paid_by].paid = DoubleAdd(@, DoubleOfCents(e.amount))]
                     ELSE bal,
                     Tail(exps))

\* expenseConsumers.forEach: if (balances[userId]) balances[userId].owe += amountPerPerson
RECURSIVE addShares(_, _, _)
addShares(bal, ec, share) ==
    IF ec = <<>> THEN bal
    ELSE LET uid == Head(ec).user_id
         IN  addShares(IF uid \in DOMAIN bal
                       THEN [bal EXCEPT ![uid].owe = DoubleAdd(@, share)]
                       ELSE bal,
                       Tail(ec), share)

\* expenses.forEach: if (expenseConsumers.length > 0) {
\*   amountPerPerson = amount / expenseConsumers.length; ... }
RECURSIVE addOwe(_, _, _)
addOwe(bal, exps, cons) ==
    IF exps = <<>> THEN bal
    ELSE LET e == Head(exps)
             ec == expenseConsumersOf(cons, e.id)
         IN  addOwe(IF Len(ec) > 0
                    THEN addShares(bal, ec, amountPerPerson(e.amount, Len(ec)))
                    ELSE bal,
                    Tail(exps), cons)

\* Object.values(balances) after the rounding pass; integer keys enumerate in
\* ascending order.  The results paid, owe and balance are in cents:
\* Math.round((paid - owe) * 100) / 100 is the double nearest that many cents.
calculateBalanceResult(us, exps, cons) ==
    LET bal == addOwe(addPaid(initBalances(<<>>, us), exps), exps, cons)
    IN  Map(Ascending(DOMAIN bal),
            LAMBDA i : [id |-> bal[i].id, name |-> bal[i].name,
                        paid |-> RoundCents(bal[i].paid),
                        owe |-> RoundCents(bal[i].owe),
                        balance |-> RoundCents(DoubleSub(bal[i].paid, bal[i].owe))])

\* -------------------------------------------------------- request inputs
NoInput == [none |-> TRUE]

\* Consumer lists: one user, two users, one user twice, a user nobody created
ConsumerLists == {<<1>>, <<1, 2>>, <<2, 2>>, <<MaxUsers + 1>>}

\* Bodies that pass the validation of POST /expenses
ValidBodies ==
    [product_name : {"Milk"}, paid_by : UserIds, amount : Amounts,
     expense_date : {"2024-01-01"}, consumers : ConsumerLists]

RequiredFields == {"product_name", "paid_by", "amount", "expense_date", "consumers"}

BaseBody ==
    [product_name |-> "Milk", paid_by |-> 1, amount |-> 10 * RoundFactor,
     expense_date |-> "2024-01-01", consumers |-> <<1, 2>>]

Without(b, f) == [g \in DOMAIN b \ {f} |-> b[g]]

\* Bodies with one required field absent or falsy, and the empty body
InvalidBodies ==
    {Without(BaseBody, f) : f \in RequiredFields}
        \cup { [BaseBody EXCEPT !.product_name = ""], [BaseBody EXCEPT !.paid_by = 0],
               [BaseBody EXCEPT !.amount = 0], [BaseBody EXCEPT !.expense_date = ""],
               [BaseBody EXCEPT !.consumers = <<>>] }
        \cup { [g \in {} |-> 0] }

Bodies == ValidBodies \cup InvalidBodies

\* The bodies of the requests that run concurrently
RaceBodies ==
    { [BaseBody EXCEPT !.consumers = <<1>>],
      [BaseBody EXCEPT !.paid_by = 2, !.amount = 30 * RoundFactor],
      [BaseBody EXCEPT !.consumers = <<>>] }

Kinds ==
    {"createUser", "getUsers", "getUserByEmail", "getExpenses", "postExpenses", "getBalance",
     "testConnection"}

RaceKinds == {"createUser", "postExpenses", "getExpenses", "testConnection"}

RaceUserInputs == {UserA}

\* !x for a field of the request body: undefined, "" and 0 are falsy, an array
\* never is
Falsy(b, f) ==
    IF f \notin DOMAIN b THEN TRUE
    ELSE IF f \in {"product_name", "expense_date"} THEN b[f] = ""
    ELSE IF f \in {"paid_by", "amount"} THEN b[f] = 0
    ELSE FALSE

\* The validation without its test of consumers.length
MissingRequiredLax(b) == \E f \in RequiredFields : Falsy(b, f)

\* !product_name || !paid_by || !amount || !expense_date || !consumers ||
\* consumers.length === 0
MissingRequired(b) ==
    IF \E f \in RequiredFields : Falsy(b, f) THEN TRUE ELSE Len(b.consumers) = 0

\* What the requests of a specification are drawn from
Workload(ks, us, es, bs) == [kinds |-> ks, userInputs |-> us, emails |-> es, bodies |-> bs]

InputsOf(k, w) ==
    CASE k = "createUser" -> w.userInputs
      [] k = "getUserByEmail" -> [email : w.emails]
      [] k = "postExpenses" -> w.bodies
      [] OTHER -> {NoInput}

\* -------------------------------------------------------------- the state
VARIABLES
    users, expenses, consumers,  \* the three sheets, rows in append order
    isInitialized,               \* SheetsService.isInitialized
    pc, kind, input,             \* each request: where it is, what it is, its input
    local,                       \* newId / newExpenseId, startConsumerId, i
    snap, fetched,               \* rows fetched by Promise.all so far
    out,                         \* the response sent by the last step, if any
    acked, seen,                 \* history: expenses answered 201; those answered
                                 \* before this request arrived
    lastBalance                  \* history: the balance answered to a request
                                 \* since whose arrival no row was appended, if no
                                 \* row was appended since; whether that happened
                                 \* more than once; and the requests in flight that
                                 \* arrived after the last append

vars == <<users, expenses, consumers, isInitialized, pc, kind, input, local,
          snap, fetched, out, acked, seen, lastBalance>>

sheets == <<users, expenses, consumers>>

\* The store only grows, so the number of rows tells its contents apart
Version(us, exps, cons) == Len(us) + Len(exps) + Len(cons)

NoLocal == [newId |-> 0, start |-> 0, i |-> 0]
NoSnap == [users |-> <<>>, expenses |-> <<>>, consumers |-> <<>>]
Tables == {"users", "expenses", "consumers"}

NoResponse ==
    [proc |-> 0, kind |-> "none", status |-> "none", result |-> NoInput, exc |-> "none",
     seen |-> {}, fresh |-> FALSE, version |-> 0]

NoBalance ==
    [known |-> FALSE, again |-> FALSE, result |-> <<>>, quiet |-> [p \in Procs |-> FALSE]]

EmptyStore ==
    /\ users = <<>>
    /\ expenses = <<>>
    /\ consumers = <<>>

Idle ==
    /\ isInitialized = FALSE
    /\ pc = [p \in Procs |-> "idle"]
    /\ kind = [p \in Procs |-> "none"]
    /\ input = [p \in Procs |-> NoInput]
    /\ local = [p \in Procs |-> NoLocal]
    /\ snap = [p \in Procs |-> NoSnap]
    /\ fetched = [p \in Procs |-> {}]
    /\ out = NoResponse
    /\ acked = {}
    /\ seen = [p \in Procs |-> {}]
    /\ lastBalance = NoBalance

Init == EmptyStore /\ Idle

\* Creations that may still append their row
PendingUsers == {q \in Procs : kind[q] = "createUser" /\ pc[q] # "idle"}

PendingExpenses ==
    {q \in Procs : kind[q] = "postExpenses"
                   /\ pc[q] \in {"received", "init", "fetchExpenses", "appendExpense"}}

\* A request arrives
Receive(p, w) ==
    /\ pc[p] = "idle"
    /\ \E k \in w.kinds : \E d \in InputsOf(k, w) :
        /\ k = "createUser" => Len(users) + Cardinality(PendingUsers) < MaxUsers
        /\ k = "postExpenses" =>
              MissingRequired(d) \/ Len(expenses) + Cardinality(PendingExpenses) < MaxExpenses
        /\ kind' = [kind EXCEPT ![p] = k]
        /\ input' = [input EXCEPT ![p] = d]
    /\ pc' = [pc EXCEPT ![p] = "received"]
    /\ seen' = [seen EXCEPT ![p] = IF kind'[p] = "getExpenses" THEN acked ELSE {}]
    /\ out' = NoResponse
    /\ UNCHANGED <<users, expenses, consumers, isInitialized, local, snap, fetched, acked>>
    /\ lastBalance' = [lastBalance EXCEPT !.quiet[p] = (kind'[p] = "getBalance")]

\* The request is answered (a service operation without a router in this
\* repository returns or throws) and its frame is gone
Respond(p, st, res, e, fr, added) ==
    /\ out' = [proc |-> p, kind |-> kind[p], status |-> st, result |-> res, exc |-> e,
               seen |-> seen[p], fresh |-> fr,
               version |-> Version(users, expenses, consumers) + added]
    /\ pc' = [pc EXCEPT ![p] = "idle"]
    /\ kind' = [kind EXCEPT ![p] = "none"]
    /\ input' = [input EXCEPT ![p] = NoInput]
    /\ local' = [local EXCEPT ![p] = NoLocal]
    /\ snap' = [snap EXCEPT ![p] = NoSnap]
    /\ fetched' = [fetched EXCEPT ![p] = {}]
    /\ seen' = [seen EXCEPT ![p] = {}]

\* A catch that answers 200 with what it has, an empty list
CaughtQuietly(p, e) == Respond(p, "200", <<>>, e, FALSE, 0)

\* catch (error) { res.status(500).json({ message: 'Server error' }) }; the
\* service operations called from elsewhere rethrow
Caught(p, e) ==
    Respond(p, IF kind[p] \in {"createUser", "getUserByEmail"} THEN "threw" ELSE "500",
            ServerError, e, FALSE, 0)

\* testConnection: {success: true, title, sheetCount, sheets, timestamp} when
\* ensureInitialized returns, {success: false, error, timestamp} when it throws;
\* the title, the sheets and the time are those of the document and the clock
testConnectionResult(ok) ==
    IF ok THEN [success |-> TRUE] ELSE [success |-> FALSE, error |-> "init"]

FirstStep(k) ==
    CASE k \in {"createUser", "getUsers", "getUserByEmail"} -> "fetchUsers"
      [] k = "postExpenses" -> "fetchExpenses"
      [] OTHER -> "fetchAll"

\* The handler runs up to its first await: the validation of POST /expenses,
\* then ensureInitialized; testConnection makes no call after it
Handle(p) ==
    /\ pc[p] = "received"
    /\ IF kind[p] = "postExpenses" /\ MissingRequired(input[p])
       THEN Respond(p, "400", MissingFields, "none", FALSE, 0)
       ELSE IF kind[p] = "testConnection" /\ isInitialized
       THEN Respond(p, "returned", testConnectionResult(TRUE), "none", FALSE, 0)
       ELSE /\ pc' = [pc EXCEPT ![p] = IF isInitialized THEN FirstStep(kind[p]) ELSE "init"]
            /\ out' = NoResponse
            /\ UNCHANGED <<kind, input, local, snap, fetched, seen>>
    /\ UNCHANGED <<users, expenses, consumers, isInitialized, acked>>
    /\ UNCHANGED lastBalance

\* init: await this.doc.loadInfo() resolves
InitOk(p) ==
    /\ pc[p] = "init"
    /\ isInitialized' = TRUE
    /\ IF kind[p] = "testConnection"
       THEN Respond(p, "returned", testConnectionResult(TRUE), "none", FALSE, 0)
       ELSE /\ pc' = [pc EXCEPT ![p] = FirstStep(kind[p])]
            /\ out' = NoResponse
            /\ UNCHANGED <<kind, input, local, snap, fetched, seen>>
    /\ UNCHANGED <<users, expenses, consumers, acked>>
    /\ UNCHANGED lastBalance

\* init: the credentials or loadInfo fail; isInitialized = false; throw error;
\* testConnection catches the error and returns
InitFail(p) ==
    /\ pc[p] = "init"
    /\ isInitialized' = FALSE
    /\ IF kind[p] = "testConnection"
       THEN Respond(p, "returned", testConnectionResult(FALSE), "init", FALSE, 0)
       ELSE Caught(p, "init")
    /\ UNCHANGED <<users, expenses, consumers, acked>>
    /\ UNCHANGED lastBalance

\* const rows = await sheet.getRows() in getUsers, getUserByEmail and createUser
FetchUsers(p) ==
    /\ pc[p] = "fetchUsers"
    /\ CASE kind[p] = "getUsers" ->
              Respond(p, "200", getUsersResult(users), "none", TRUE, 0)
         [] kind[p] = "getUserByEmail" ->
              Respond(p, "returned", getUserByEmailResult(users, input[p].email), "none",
                      TRUE, 0)
         [] OTHER ->
              /\ local' = [local EXCEPT ![p].newId = NextId(users)]
              /\ pc' = [pc EXCEPT ![p] = "appendUser"]
              /\ out' = NoResponse
              /\ UNCHANGED <<kind, input, snap, fetched, seen>>
    /\ UNCHANGED <<users, expenses, consumers, isInitialized, acked>>
    /\ UNCHANGED lastBalance

\* createUser: await sheet.addRow({id: newId, ...}); return the record without password
AppendUser(p) ==
    /\ pc[p] = "appendUser"
    /\ users' = Append(users, UserRow(local[p].newId, input[p]))
    /\ Respond(p, "returned", createUserResult(local[p].newId, input[p]), "none", FALSE, 1)
    /\ UNCHANGED <<expenses, consumers, isInitialized, acked>>
    /\ lastBalance' = NoBalance

\* createExpense: const expenseRows = await expensesSheet.getRows(); newExpenseId
FetchExpenses(p) ==
    /\ pc[p] = "fetchExpenses"
    /\ local' = [local EXCEPT ![p].newId = NextId(expenses)]
    /\ pc' = [pc EXCEPT ![p] = "appendExpense"]
    /\ out' = NoResponse
    /\ UNCHANGED <<users, expenses, consumers, isInitialized, kind, input, snap, fetched,
                   acked, seen>>
    /\ UNCHANGED lastBalance

\* An addRow that inserts the expense above the rows already there
InsertExpense(p) ==
    /\ pc[p] = "appendExpense"
    /\ expenses' = <<ExpenseRow(local[p].newId, input[p])>> \o expenses
    /\ pc' = [pc EXCEPT ![p] = "fetchConsumers"]
    /\ out' = NoResponse
    /\ UNCHANGED <<users, consumers, isInitialized, kind, input, local, snap, fetched,
                   acked, seen>>
    /\ lastBalance' = NoBalance

\* createExpense: await expensesSheet.addRow({id: newExpenseId, ...})
AppendExpense(p) ==
    /\ pc[p] = "appendExpense"
    /\ expenses' = Append(expenses, ExpenseRow(local[p].newId, input[p]))
    /\ pc' = [pc EXCEPT ![p] = "fetchConsumers"]
    /\ out' = NoResponse
    /\ UNCHANGED <<users, consumers, isInitialized, kind, input, local, snap, fetched,
                   acked, seen>>
    /\ lastBalance' = NoBalance

\* router.post: res.status(201).json({message, expense}), after `added` rows
\* were appended in the same step
Created(p, added) ==
    LET expense == createExpenseResult(local[p].newId, input[p])
    IN  /\ Respond(p, "201", [message |-> "Expense created successfully", expense |-> expense],
                   "none", FALSE, added)
        /\ acked' = acked \cup {expense}

\* createExpense: const consumerRows = await consumersSheet.getRows();
\* startConsumerId; the loop starts at i = 0
FetchConsumers(p) ==
    /\ pc[p] = "fetchConsumers"
    /\ IF Len(input[p].consumers) = 0
       THEN Created(p, 0)
       ELSE /\ local' = [local EXCEPT ![p].start = NextId(consumers), ![p].i = 0]
            /\ pc' = [pc EXCEPT ![p] = "appendConsumer"]
            /\ out' = NoResponse
            /\ UNCHANGED <<kind, input, snap, fetched, acked, seen>>
    /\ UNCHANGED <<users, expenses, consumers, isInitialized>>
    /\ UNCHANGED lastBalance

\* createExpense: await consumersSheet.addRow({id: startConsumerId + i, ...}); i++;
\* after the last row the handler answers 201
AppendConsumer(p) ==
    /\ pc[p] = "appendConsumer"
    /\ consumers' = Append(consumers,
                           ConsumerRow(local[p].start + local[p].i, local[p].newId,
                                       input[p].consumers[local[p].i + 1]))
    /\ IF local[p].i + 1 < Len(input[p].consumers)
       THEN /\ local' = [local EXCEPT ![p].i = @ + 1]
            /\ out' = NoResponse
            /\ UNCHANGED <<pc, kind, input, snap, fetched, acked, seen>>
       ELSE Created(p, 1)
    /\ UNCHANGED <<users, expenses, isInitialized>>
    /\ lastBalance' = NoBalance

TableRows(t) ==
    CASE t = "users" -> users
      [] t = "expenses" -> expenses
      [] OTHER -> consumers

\* What the history keeps when the step answers a GET /expenses/balance
BalanceHistory(p) ==
    IF out'.kind # "getBalance" \/ out'.status # "200" THEN lastBalance
    ELSE IF lastBalance.quiet[p]
    THEN [known |-> TRUE, again |-> lastBalance.known, result |-> out'.result,
          quiet |-> [lastBalance.quiet EXCEPT ![p] = FALSE]]
    ELSE lastBalance

\* A calculateBalance that returns no record when the service is not marked
\* initialised as it finishes
FetchTableGuarded(p, t) ==
    /\ pc[p] = "fetchAll"
    /\ t \notin fetched[p]
    /\ LET s == [snap[p] EXCEPT ![t] = TableRows(t)]
           fr == s.users = users /\ s.expenses = expenses /\ s.consumers = consumers
       IN  IF fetched[p] \cup {t} # Tables
           THEN /\ snap' = [snap EXCEPT ![p] = s]
                /\ fetched' = [fetched EXCEPT ![p] = @ \cup {t}]
                /\ out' = NoResponse
                /\ UNCHANGED <<pc, kind, input, local, seen>>
           ELSE IF kind[p] = "getBalance"
                THEN Respond(p, "200",
                             IF isInitialized
                             THEN calculateBalanceResult(s.users, s.expenses, s.consumers)
                             ELSE <<>>,
                             "none", fr, 0)
                ELSE IF getExpensesThrows(s.users, s.expenses, s.consumers)
                     THEN Respond(p, "500", ServerError, "TypeError", fr, 0)
                     ELSE Respond(p, "200", getExpensesResult(s.users, s.expenses, s.consumers),
                                  "none", fr, 0)
    /\ UNCHANGED <<users, expenses, consumers, isInitialized, acked>>
    /\ lastBalance' = BalanceHistory(p)

\* getExpenses / calculateBalance: one getRows() of the Promise.all resolves; the
\* three fetches are in flight together and the store answers them in any
\* order.  When the last one is in, the result is computed and the handler answers.
FetchTable(p, t) ==
    /\ pc[p] = "fetchAll"
    /\ t \notin fetched[p]
    /\ LET s == [snap[p] EXCEPT ![t] = TableRows(t)]
           fr == s.users = users /\ s.expenses = expenses /\ s.consumers = consumers
       IN  IF fetched[p] \cup {t} # Tables
           THEN /\ snap' = [snap EXCEPT ![p] = s]
                /\ fetched' = [fetched EXCEPT ![p] = @ \cup {t}]
                /\ out' = NoResponse
                /\ UNCHANGED <<pc, kind, input, local, seen>>
           ELSE IF kind[p] = "getBalance"
                THEN Respond(p, "200", calculateBalanceResult(s.users, s.expenses, s.consumers),
                             "none", fr, 0)
                ELSE IF getExpensesThrows(s.users, s.expenses, s.consumers)
                     THEN Respond(p, "500", ServerError, "TypeError", fr, 0)
                     ELSE Respond(p, "200", getExpensesResult(s.users, s.expenses, s.consumers),
                                  "none", fr, 0)
    /\ UNCHANGED <<users, expenses, consumers, isInitialized, acked>>
    /\ lastBalance' = BalanceHistory(p)

StoreSteps ==
    {"fetchUsers", "appendUser", "fetchExpenses", "appendExpense", "fetchConsumers",
     "appendConsumer", "fetchAll"}

\* A failure after which createExpense takes its Expense row back
StoreFailRollback(p) ==
    /\ pc[p] \in StoreSteps
    /\ Caught(p, "store")
    /\ expenses' = IF pc[p] \in {"fetchConsumers", "appendConsumer"}
                   THEN SubSeq(expenses, 1, Len(expenses) - 1)
                   ELSE expenses
    /\ UNCHANGED <<users, consumers, isInitialized, acked>>
    /\ UNCHANGED lastBalance

\* A getRows() or addRow() rejects (network, auth, missing sheet): the operation
\* logs and rethrows, the handler catches
StoreFail(p) ==
    /\ pc[p] \in StoreSteps
    /\ Caught(p, "store")
    /\ UNCHANGED <<users, expenses, consumers, isInitialized, acked>>
    /\ UNCHANGED lastBalance

\* One step of the request at process p
Step(p, w) ==
    \/ Receive(p, w)
    \/ Handle(p)
    \/ InitOk(p)
    \/ InitFail(p)
    \/ FetchUsers(p)
    \/ AppendUser(p)
    \/ FetchExpenses(p)
    \/ AppendExpense(p)
    \/ FetchConsumers(p)
    \/ AppendConsumer(p)
    \/ \E t \in Tables : FetchTable(p, t)
    \/ StoreFail(p)

\* Concurrent requests
RaceLoad == Workload(RaceKinds, RaceUserInputs, {"a@x"}, RaceBodies)
Next == \E p \in Procs : Step(p, RaceLoad)
Spec == Init /\ [][Next]_vars

\* Reads of a store with any rows in it
StoreUsers ==
    {[i \in 1..Len(ids) |-> UserRow(ids[i], IF i = 1 THEN UserA ELSE UserB)] :
        ids \in SeqsUpTo(1..MaxUsers, MaxUsers)}

StoreExpenseRows(amounts) ==
    {ExpenseRow(id, [BaseBody EXCEPT !.paid_by = payer, !.amount = a]) :
        id \in 1..MaxExpenses, payer \in 1..MaxUsers, a \in amounts}

\* The amounts of the rows of a store: those of the requests, 30 and 2.01
StoreAmounts == Amounts \cup {30 * RoundFactor, 2 * RoundFactor + 1}

StoreExpenses ==
    {<<>>} \cup {<<e>> : e \in StoreExpenseRows(StoreAmounts)}
           \cup {<<e1, e2>> : e1 \in StoreExpenseRows(StoreAmounts),
                              e2 \in StoreExpenseRows({BaseBody.amount})}

StoreConsumers ==
    {[i \in 1..Len(rows) |-> ConsumerRow(i, rows[i][1], rows[i][2])] :
        rows \in SeqsUpTo((1..MaxExpenses) \X (1..MaxUsers), MaxConsumers + 1)}

StoreInit ==
    /\ users \in StoreUsers
    /\ expenses \in StoreExpenses
    /\ consumers \in StoreConsumers
    /\ Idle

ReadLoad == Workload({"getExpenses", "getBalance", "testConnection"}, {}, {}, {})

StoreNext ==
    \/ Receive(1, ReadLoad)
    \/ Handle(1)
    \/ InitOk(1)
    \/ InitFail(1)
    \/ \E t \in Tables : FetchTable(1, t)
    \/ StoreFail(1)

StoreSpec == StoreInit /\ [][StoreNext]_vars

\* GET /expenses/balance concurrent with the requests that append rows or
\* initialise the service
BalanceLoad ==
    Workload({"getBalance", "createUser", "postExpenses", "testConnection"},
             RaceUserInputs, {}, {BaseBody})
BalanceNext == \E p \in Procs : Step(p, BalanceLoad)
BalanceSpec == Init /\ [][BalanceNext]_vars

\* One request at a time, over every input
FullLoad == Workload(Kinds, UserInputs, Emails, Bodies)
SeqNext == Step(1, FullLoad)
SeqSpec == Init /\ [][SeqNext]_vars

\* ------------------------------------------------------------- the claims

\* C1: in every reachable state of the expenses table no two rows share an
\* id, whatever the interleaving of the fetches and appends of two
\* POST /expenses requests.
DistinctExpenseIds ==
    \A i, j \in 1..Len(expenses) : i # j => expenses[i].id # expenses[j].id

\* A body as the claim describes it: consumers empty or absent, or
\* product_name, paid_by, amount or expense_date absent
LacksRequired(b) ==
    \/ \E f \in RequiredFields : f \notin DOMAIN b
    \/ ("consumers" \in DOMAIN b /\ b.consumers = <<>>)

\* C2: a POST /expenses whose body has an empty or absent consumers list, or
\* lacks product_name, paid_by, amount or expense_date, is answered 400 by the
\* step that handles it; that step leaves the three tables unchanged and ends
\* the request, so createExpense is never entered.
RejectsMissingFields ==
    [][\A p \in Procs :
          (pc[p] = "received" /\ kind[p] = "postExpenses" /\ LacksRequired(input[p])
             /\ pc'[p] # "received")
          => /\ out'.proc = p
             /\ out'.status = "400"
             /\ out'.result = MissingFields
             /\ pc'[p] = "idle"
             /\ local'[p] = NoLocal
             /\ sheets' = sheets]_vars

\* A body without consumers was answered 400 while the tables held rows
RejectedWitness ==
    /\ out.kind = "postExpenses"
    /\ out.status = "400"
    /\ Len(users) > 0
    /\ Len(expenses) > 0

\* The ledger of a store, stated from the rows: what each user paid and owes
RECURSIVE SumOver(_, _)
SumOver(S, f) ==
    IF S = {} THEN 0
    ELSE LET x == CHOOSE y \in S : TRUE IN f[x] + SumOver(S \ {x}, f)

RECURSIVE Factorial(_)
Factorial(n) == IF n <= 1 THEN 1 ELSE n * Factorial(n - 1)

\* The consumer rows of an expense, by position
GroupOf(cons, e) == {k \in 1..Len(cons) : cons[k].expense_id = e.id}

\* Sum of the amounts of the expenses paid by u, in cents
LedgerPaid(exps, u) ==
    SumOver({i \in 1..Len(exps) : exps[i].paid_by = u}, [i \in 1..Len(exps) |-> exps[i].amount])

\* Sum over the expenses with a consumer row of amount / (number of its
\* consumer rows), once per consumer row of u; in 1/unit of a cent
LedgerOwe(exps, cons, u, unit) ==
    SumOver({i \in 1..Len(exps) : GroupOf(cons, exps[i]) # {}},
            [i \in 1..Len(exps) |->
                LET g == GroupOf(cons, exps[i])
                IN  IF g = {} THEN 0
                    ELSE Cardinality({k \in g : cons[k].user_id = u})
                            * ((exps[i].amount * unit) \div Cardinality(g))])

Abs(x) == IF x < 0 THEN -x ELSE x

\* n / d to the nearest integer, the tie going up
Nearest(n, d) ==
    LET m == (Abs(n) \div d) + 1
    IN  CHOOSE r \in (-m)..m : 2 * r * d - d <= 2 * n /\ 2 * n < 2 * r * d + d

IdsOf(rows) == {rows[i].id : i \in 1..Len(rows)}

\* One record per user id, in some order
OneRecordPerUser(res, us) ==
    /\ Len(res) = Cardinality(IdsOf(us))
    /\ \A u \in IdsOf(us) : \E i \in 1..Len(res) : res[i].id = u

BalanceAnswered == out.kind = "getBalance" /\ out.status = "200" /\ out.fresh

\* The scenario of the specification: users {1: A, 2: B}, one expense of 30
\* paid by 1 and consumed by 1 and 2
ScenarioStore ==
    /\ getUsersResult(users) = << [id |-> 1, name |-> "A", email |-> "a@x"],
                                  [id |-> 2, name |-> "B", email |-> "b@x"] >>
    /\ Len(expenses) = 1
    /\ expenses[1].paid_by = 1
    /\ expenses[1].amount = 30 * RoundFactor
    /\ Map(consumers, LAMBDA c : <<c.expense_id, c.user_id>>)
          = << <<expenses[1].id, 1>>, <<expenses[1].id, 2>> >>

ScenarioBalance ==
    << [id |-> 1, name |-> "A", paid |-> 30 * RoundFactor, owe |-> 15 * RoundFactor,
        balance |-> 15 * RoundFactor],
       [id |-> 2, name |-> "B", paid |-> 0, owe |-> 15 * RoundFactor,
        balance |-> -(15 * RoundFactor)] >>

\* C3: calculateBalance returns exactly one record per user of the users
\* table; paid(U) is the sum of the amounts of the expenses U paid, owe(U) the
\* sum of amount / (number of consumer rows) over the consumer rows of U and
\* balance(U) is paid(U) - owe(U), each of the three rounded to 2 decimals (the
\* nearest cent, a tie going up); the scenario of the specification gives
\* A paid 30, owe 15, balance 15 and B paid 0, owe 15, balance -15.
BalanceRoundedLedger ==
    BalanceAnswered =>
        LET unit == Factorial(Len(consumers))
        IN  /\ OneRecordPerUser(out.result, users)
            /\ \A i \in 1..Len(out.result) :
                  LET r == out.result[i]
                      paid == LedgerPaid(expenses, r.id)
                      owe == LedgerOwe(expenses, consumers, r.id, unit)
                  IN  /\ r.paid = Nearest(paid, 1)
                      /\ r.owe = Nearest(owe, unit)
                      /\ r.balance = Nearest(paid * unit - owe, unit)
            /\ ScenarioStore => out.result = ScenarioBalance

\* Every consumer row of every expense names a user of the users table
ConsumersKnown ==
    \A i \in 1..Len(expenses) : \A k \in GroupOf(consumers, expenses[i]) :
        consumers[k].user_id \in IdsOf(users)

\* Every expense has a consumer row and a payer of the users table
ExpensesSettled ==
    \A i \in 1..Len(expenses) :
        /\ GroupOf(consumers, expenses[i]) # {}
        /\ expenses[i].paid_by \in IdsOf(users)

\* The balances of an answer sum to total within half a cent per record
SumsTo(res, total) ==
    2 * Abs(SumSeq(Map(res, LAMBDA r : r.balance)) - total) <= Len(res)

\* The amounts paid by users of the users table
PaidByKnown ==
    SumOver({i \in 1..Len(expenses) : expenses[i].paid_by \in IdsOf(users)},
            [i \in 1..Len(expenses) |-> expenses[i].amount])

\* The amounts of the expenses that have a consumer row
SplitAmounts ==
    SumOver({i \in 1..Len(expenses) : GroupOf(consumers, expenses[i]) # {}},
            [i \in 1..Len(expenses) |-> expenses[i].amount])

\* C4 as stated: whenever every expense's consumer rows all refer to users of
\* the users table, the balances calculateBalance returns sum to 0 (up to the
\* rounding of each balance).
ConservationWhenConsumersKnown == (BalanceAnswered /\ ConsumersKnown) => SumsTo(out.result, 0)

\* C4 amended: whenever every expense's consumer rows all refer to users of
\* the users table, the balances calculateBalance returns sum (up to the
\* rounding of each balance) to the amounts of the expenses whose payer is in
\* the users table minus the amounts of the expenses that have a consumer row;
\* the sum is 0 when every expense has a payer of the users table and at least
\* one consumer row.
ConservationOfSettled ==
    (BalanceAnswered /\ ConsumersKnown) =>
        /\ SumsTo(out.result, PaidByKnown - SplitAmounts)
        /\ ExpensesSettled => SumsTo(out.result, 0)

\* A balance over two settled expenses in which somebody is owed money
ConservationWitness ==
    /\ BalanceAnswered
    /\ ConsumersKnown
    /\ ExpensesSettled
    /\ Len(expenses) = 2
    /\ \E i \in 1..Len(out.result) : out.result[i].balance > 0

\* C5 for the requests answered 200: when a POST /expenses with payer p,
\* amount A and a non-empty list C of known consumers was answered 201 with
\* expense id E before a GET /expenses arrived, the list the GET answers holds
\* an entry with id E whose paid_by is p, whose consumers are exactly C in
\* order and whose amount_per_person is A / |C| (the double nearest to it).
RoundTrip ==
    (out.kind = "getExpenses" /\ out.status = "200") =>
        \A a \in out.seen :
            (a.consumers # <<>> /\ Range(a.consumers) \subseteq IdsOf(users)) =>
                \E i \in 1..Len(out.result) :
                    LET x == out.result[i]
                    IN  /\ x.id = a.id
                        /\ x.paid_by.id = a.paid_by
                        /\ Map(x.consumers, LAMBDA c : c.id) = a.consumers
                        /\ x.amount_per_person
                              = NearestDouble(a.amount, RoundFactor * Len(a.consumers))

\* The request at p takes a step
Steps(p) == <<pc[p], fetched[p], local[p]>> # <<pc'[p], fetched'[p], local'[p]>>

EveryExpenseHasConsumer ==
    \A i \in 1..Len(expenses) : GroupOf(consumers, expenses[i]) # {}

IsPrefix(s, t) == Len(s) <= Len(t) /\ SubSeq(t, 1, Len(s)) = s

ReadKinds == {"getUsers", "getUserByEmail", "getExpenses", "getBalance"}

\* C8: every step leaves every existing row unchanged and in its position, so
\* each table is a prefix of what it is after the step; the steps of createUser
\* change no table but users, those of createExpense leave users unchanged, and
\* those of getUsers, getUserByEmail, getExpenses and calculateBalance change
\* no table.
AppendOnly ==
    [][/\ IsPrefix(users, users')
       /\ IsPrefix(expenses, expenses')
       /\ IsPrefix(consumers, consumers')
       /\ \A p \in Procs : Steps(p) =>
             /\ kind[p] = "createUser" => (expenses' = expenses /\ consumers' = consumers)
             /\ kind[p] = "postExpenses" => users' = users
             /\ kind[p] \in ReadKinds => sheets' = sheets]_vars

\* Two expenses with their consumer rows were appended below one another, the
\* second by a request that was answered 201
AppendedWitness ==
    /\ out.kind = "postExpenses"
    /\ out.status = "201"
    /\ Len(users) > 0
    /\ Len(expenses) = 2
    /\ expenses[1] # expenses[2]
    /\ Len(consumers) > 2

EndpointKinds == {"getUsers", "getExpenses", "postExpenses", "getBalance"}

\* C9: when the initialisation or a row-store fetch or append of a request to
\* GET /users, GET /expenses, POST /expenses (valid body) or
\* GET /expenses/balance fails, the step that fails answers the request with
\* status 500 and {message: 'Server error'}, ends the request (no second
\* answer, no retry) and appends nothing.
FailureAnswered500 ==
    [][\A p \in Procs :
          (kind[p] \in EndpointKinds /\ out'.proc = p /\ out'.exc \in {"init", "store"})
          => /\ out'.status = "500"
             /\ out'.result = ServerError
             /\ pc'[p] = "idle"
             /\ kind'[p] = "none"
             /\ sheets' = sheets]_vars

\* A POST /expenses was answered 500 because the store failed after the
\* expense row was appended
StoreFailureWitness ==
    /\ out.kind = "postExpenses"
    /\ out.exc = "store"
    /\ out.status = "500"
    /\ Len(expenses) > 0
    /\ pc[out.proc] = "idle"

\* The stores that differ from us in the password column only
PasswordVariants(us) ==
    {[i \in 1..Len(us) |-> [us[i] EXCEPT !.password = pw[i]]] :
        pw \in [1..Len(us) -> Passwords]}

HasPassword(r) == "password" \in DOMAIN r

\* C10: the results of getUsers and of createUser contain no password field,
\* getUsers returns the same result for every store that differs from the
\* present one in the password column only, and of all operations only
\* getUserByEmail returns a record with the password (the stored one).
PasswordOnlyByEmail ==
    /\ (out.kind = "getUsers" /\ out.status = "200") =>
          /\ \A i \in 1..Len(out.result) : ~HasPassword(out.result[i])
          /\ \A us \in PasswordVariants(users) : getUsersResult(us) = out.result
    /\ (out.kind = "createUser" /\ out.status = "returned") => ~HasPassword(out.result)
    /\ (out.kind = "getUserByEmail" /\ out.status = "returned" /\ out.result # Null) =>
          /\ HasPassword(out.result)
          /\ \E i \in 1..Len(users) :
                users[i].id = out.result.id /\ users[i].password = out.result.password
    /\ (out.kind \in {"getExpenses", "getBalance"} /\ out.status = "200") =>
          \A i \in 1..Len(out.result) :
              /\ ~HasPassword(out.result[i])
              /\ out.kind = "getExpenses" =>
                    /\ ~HasPassword(out.result[i].paid_by)
                    /\ \A k \in 1..Len(out.result[i].consumers) :
                          ~HasPassword(out.result[i].consumers[k])
    /\ (out.kind = "postExpenses" /\ out.status = "201") => ~HasPassword(out.result.expense)

\* GET /users answered two users whose stored passwords differ
UsersListedWitness ==
    /\ out.kind = "getUsers"
    /\ out.status = "200"
    /\ Len(out.result) = 2
    /\ users[1].password # users[2].password

\* The largest id of a table, 0 for an empty one
MaxId(rows) ==
    IF rows = <<>> THEN 0 ELSE CHOOSE m \in IdsOf(rows) : \A x \in IdsOf(rows) : x <= m

\* Ids positive and strictly increasing in append order (hence pairwise distinct)
IncreasingIds(rows) ==
    /\ \A i \in 1..Len(rows) : rows[i].id > 0
    /\ \A i, j \in 1..Len(rows) : i < j => rows[i].id < rows[j].id

\* C11: when creation requests do not overlap, every step that appends a row
\* to users, expenses or expense_consumers gives it the id max(ids of the
\* table, default 0) + 1, and the ids of each table are positive, pairwise
\* distinct and strictly increasing in append order.
NextIdPolicy ==
    [][\A k \in 1..3 :
          LET old == sheets[k]
              new == sheets'[k]
          IN  /\ Len(new) > Len(old) =>
                    /\ Len(new) = Len(old) + 1
                    /\ new[Len(new)].id = MaxId(old) + 1
              /\ IncreasingIds(new)]_vars

\* Two users, two expenses and at least three consumer rows were created one
\* after the other
CreatedInTurnWitness ==
    /\ Len(users) = 2
    /\ Len(expenses) = 2
    /\ Len(consumers) >= 3
    /\ consumers[Len(consumers)].id = Len(consumers)

\* The Expense row the createExpense at p appends
OwnExpenseRow(p) ==
    [id |-> local[p].newId, product_name |-> input[p].product_name,
     paid_by |-> input[p].paid_by, amount |-> input[p].amount,
     expense_date |-> input[p].expense_date]

\* The request at p ends in a failure of the store, which changes no table
FailsHere(p) == pc'[p] = "idle" /\ out'.proc = p /\ out'.exc = "store" /\ sheets' = sheets

\* C12: the steps of one createExpense with consumer list c[0..n-1] come in
\* the order fetch expenses, append the Expense row, fetch expense_consumers,
\* append n consumer rows in list order, the i-th with id start + i (start the
\* largest id of the consumer snapshot, default 0, plus 1), expense_id the new
\* expense id and user_id c[i]; the request is answered 201 after the n-th,
\* and a consumer row is appended only when the Expense row of the request is
\* in the expenses table.
CreateExpenseInOrder ==
    [][\A p \in Procs : (kind[p] = "postExpenses" /\ Steps(p)) =>
          LET c == input[p].consumers
              i == local[p].i
          IN  /\ pc[p] = "fetchExpenses" =>
                    \/ FailsHere(p)
                    \/ /\ pc'[p] = "appendExpense"
                       /\ local'[p].newId = MaxId(expenses) + 1
                       /\ sheets' = sheets
              /\ pc[p] = "appendExpense" =>
                    \/ FailsHere(p)
                    \/ /\ pc'[p] = "fetchConsumers"
                       /\ expenses' = expenses \o <<OwnExpenseRow(p)>>
                       /\ consumers' = consumers
                       /\ users' = users
              /\ pc[p] = "fetchConsumers" =>
                    \/ FailsHere(p)
                    \/ /\ pc'[p] = "appendConsumer"
                       /\ local'[p].start = MaxId(consumers) + 1
                       /\ local'[p].i = 0
                       /\ sheets' = sheets
              /\ pc[p] = "appendConsumer" =>
                    \/ FailsHere(p)
                    \/ /\ i < Len(c)
                       /\ \E k \in 1..Len(expenses) : expenses[k] = OwnExpenseRow(p)
                       /\ consumers' = consumers \o
                             << [id |-> local[p].start + i, expense_id |-> local[p].newId,
                                 user_id |-> c[i + 1]] >>
                       /\ expenses' = expenses
                       /\ users' = users
                       /\ IF i + 1 < Len(c)
                          THEN pc'[p] = "appendConsumer" /\ local'[p].i = i + 1
                          ELSE pc'[p] = "idle" /\ out'.proc = p /\ out'.status = "201"]_vars

\* A createExpense with two consumers was answered 201 while another request
\* had appended rows of its own in between
OrderedUnderRaceWitness ==
    /\ out.kind = "postExpenses"
    /\ out.status = "201"
    /\ Len(out.result.expense.consumers) = 2
    /\ Len(consumers) = 3
    /\ consumers[3].user_id = 2
    /\ consumers[1].expense_id = out.result.expense.id
    /\ consumers[2].expense_id # out.result.expense.id

\* C13: init completes successfully only while isInitialized is false, that
\* is at most once as long as no attempt fails, whatever the interleaving of
\* the requests (several arriving before the first init has finished included).
InitCompletesOnce ==
    [][\A p \in Procs :
          (pc[p] = "init" /\ pc'[p] # "init" /\ isInitialized') => ~isInitialized]_vars

\* C14: when the consumer-table fetch or the k-th consumer append of a
\* createExpense fails, the failing step changes no table, so the Expense row
\* of the request and the k-1 consumer rows it appended stay and are the only
\* rows of that expense; the request is answered 500 and its frame is gone, so
\* nothing more is appended or retried for it.
NoRollback ==
    [][\A p \in Procs :
          (kind[p] = "postExpenses" /\ pc[p] \in {"fetchConsumers", "appendConsumer"}
             /\ out'.proc = p /\ out'.exc = "store")
          => LET c == input[p].consumers
                 own == {k \in 1..Len(consumers') : consumers'[k].expense_id = local[p].newId}
             IN  /\ sheets' = sheets
                 /\ \E k \in 1..Len(expenses') : expenses'[k] = OwnExpenseRow(p)
                 /\ Cardinality(own) = local[p].i
                 /\ \A j \in 0..(local[p].i - 1) :
                       \E k \in own : /\ consumers'[k].id = local[p].start + j
                                      /\ consumers'[k].user_id = c[j + 1]
                 /\ out'.status = "500"
                 /\ out'.result = ServerError
                 /\ pc'[p] = "idle"
                 /\ local'[p] = NoLocal
                 /\ input'[p] = NoInput]_vars

\* A second createExpense was answered 500 after its Expense row was appended
\* and before any of its consumer rows: the row stays, with no consumer row
OrphanExpenseWitness ==
    /\ out.kind = "postExpenses"
    /\ out.exc = "store"
    /\ out.status = "500"
    /\ Len(expenses) = 2
    /\ GroupOf(consumers, expenses[1]) # {}
    /\ GroupOf(consumers, expenses[2]) = {}

\* Some Expense row's paid_by, or the user_id of a consumer row of some
\* Expense row, is no id of the users table
DanglingReference ==
    \E i \in 1..Len(expenses) :
        \/ expenses[i].paid_by \notin IdsOf(users)
        \/ \E k \in GroupOf(consumers, expenses[i]) : consumers[k].user_id \notin IdsOf(users)

\* GET /expenses was answered after its three fetches succeeded
ExpensesAnswered == out.kind = "getExpenses" /\ out.exc \notin {"init", "store"}

\* C15: GET /expenses answers 500 with no list at all whenever some Expense
\* row's paid_by, or the user_id of a consumer row matched to an Expense row,
\* is absent from the users table; when every such reference resolves it
\* answers one entry per Expense row, in append order.
ExpensesAllOrNothing ==
    ExpensesAnswered =>
        IF DanglingReference
        THEN out.status = "500" /\ out.result = ServerError
        ELSE /\ out.status = "200"
             /\ Len(out.result) = Len(expenses)
             /\ \A i \in 1..Len(expenses) :
                   /\ out.result[i].id = expenses[i].id
                   /\ out.result[i].amount = expenses[i].amount
                   /\ out.result[i].paid_by.id = expenses[i].paid_by

\* GET /expenses was answered 500 over two expenses whose payers are users,
\* one consumer row naming a user that does not exist
DanglingConsumerWitness ==
    /\ ExpensesAnswered
    /\ out.status = "500"
    /\ Len(expenses) = 2
    /\ \A i \in 1..Len(expenses) : expenses[i].paid_by \in IdsOf(users)
    /\ DanglingReference

\* The shares charged to users of the users table, in 1/unit of a cent: for
\* every expense with a consumer row, amount / (number of its consumer rows)
\* once per consumer row that names such a user
OweOfKnown(unit) ==
    SumOver({i \in 1..Len(expenses) : GroupOf(consumers, expenses[i]) # {}},
            [i \in 1..Len(expenses) |->
                LET g == GroupOf(consumers, expenses[i])
                IN  IF g = {} THEN 0
                    ELSE Cardinality({k \in g : consumers[k].user_id \in IdsOf(users)})
                            * ((expenses[i].amount * unit) \div Cardinality(g))])

\* GET /expenses/balance was answered after its three fetches succeeded
BalanceFetched == out.kind = "getBalance" /\ out.exc \notin {"init", "store"}

\* C16: calculateBalance answers whatever the references: its result has
\* exactly one record per id of the users table and none for another id; the
\* paid of all records sum to the amounts of the expenses whose paid_by is in
\* the users table; the owe of all records sum (up to the rounding of each) to
\* the shares of the consumer rows that name a user of the table, every
\* consumer row of an expense counting in its split denominator and an expense
\* without consumer rows charging nobody.
BalanceSkipsUnknown ==
    BalanceFetched =>
        LET unit == Factorial(Len(consumers))
            res == out.result
        IN  /\ out.status = "200"
            /\ OneRecordPerUser(res, users)
            /\ \A i \in 1..Len(res) : res[i].id \in IdsOf(users)
            /\ SumSeq(Map(res, LAMBDA r : r.paid)) = PaidByKnown
            /\ 2 * Abs(unit * SumSeq(Map(res, LAMBDA r : r.owe)) - OweOfKnown(unit))
                  <= Len(res) * unit

\* A balance was answered over an expense paid by nobody in the users table,
\* an expense shared between a user and somebody who is not one, and an expense
\* without consumer rows
UnknownSkippedWitness ==
    /\ BalanceFetched
    /\ out.status = "200"
    /\ \E i \in 1..Len(expenses) : expenses[i].paid_by \notin IdsOf(users)
    /\ \E i \in 1..Len(expenses) : GroupOf(consumers, expenses[i]) = {}
    /\ \E i \in 1..Len(expenses) : \E k, l \in GroupOf(consumers, expenses[i]) :
          /\ consumers[k].user_id \in IdsOf(users)
          /\ consumers[l].user_id \notin IdsOf(users)
    /\ \E i \in 1..Len(out.result) : out.result[i].owe > 0

====
